---- MODULE Spec2Model ----
(***************************************************************************)
(* Inference gateway runtime of stgarg/locallite (src/ai-gateway/src):     *)
(*   - OnnxEmbeddingBackend with its in-process LRU cache                  *)
(*     (runtime/embedding_backends/onnx_backend.py) on top of              *)
(*     OptimizedEmbeddingEngine (embedding_engine.py);                     *)
(*   - ModelService load / unload (services/model_service.py);             *)
(*   - GemmaChatModel load / unload / generate (chat/gemma_model.py);      *)
(*   - EmbeddingService and ChatService (services/embedding_service.py,    *)
(*     services/chat_service.py) behind the HTTP handlers of               *)
(*     model_router.py.                                                    *)
(* The specifications share the variables:                                 *)
(*   Spec        one caller driving the backend: load, embed, and the two  *)
(*               cache operations;                                         *)
(*   SpecThreads several threads running the cache operations statement by *)
(*               statement on one backend;                                 *)
(*   SpecService several coroutines calling load_model / unload_model on   *)
(*               one ModelService;                                         *)
(*   SpecGen     one caller generating on the chat model, over the full    *)
(*               range of requests;                                        *)
(*   SpecChat    several coroutines generating on, and unloading, the chat *)
(*               model on one event loop;                                  *)
(*   SpecEmbedding  the embedding service and its handler on an engine     *)
(*               whose inference may fail;                                 *)
(*   SpecGateway the two handlers and the chat service on a ModelService   *)
(*               that loads and unloads chat models.                       *)
(***************************************************************************)
EXTENDS Integers, Sequences, FiniteSets, TLC

\* ------------------------------------------------------------------ bounds
MaxCap == 2          \* largest cache_size a backend is constructed with
MaxBatch == 4        \* longest texts list handed to embed
NumThreads == 2      \* threads of SpecThreads
NumTasks == 2        \* coroutines of SpecService
MaxInstances == 2    \* backend objects constructed in one run
MaxNew == 2          \* largest max_tokens of a chat request

Texts == {"a", "b", "c"}          \* cache keys
BatchTexts == {"a", "b"}          \* texts that occur in embed requests
Threads == 1..NumThreads
Tasks == 1..NumTasks
ModelIds == {"bge", "gemma"}
ModelTypes == {"embeddings", "chat", "vision"}

VARIABLES
    \* OnnxEmbeddingBackend
    engine_loaded,      \* self._engine is not None
    session_npu,        \* engine.session_npu is not None (alternate session)
    engine_last_perf,   \* engine._last_perf
    cache_size,         \* self._cache_size
    cache,              \* self._cache, OrderedDict order, oldest first
    backend_last_perf,  \* self._last_perf
    accessOrder,        \* history: keys by most recent access, oldest first
    last,               \* history: the last completed backend operation
    \* threads of SpecThreads
    tpc, tkey, tvec,
    \* ModelService
    loaded_models, model_info, default_models,
    lock, waiters,      \* self._initialization_lock and its FIFO of waiters
    pc, call,           \* each coroutine's position and arguments
    constructed,        \* backend objects constructed so far
    event,              \* history: the coroutine that ran last, where, and
                        \* what its call returned if it returned
    \* GemmaChatModel and its callers
    chat,               \* the chat model instance the service holds or held last
    rng,                \* self.rng, the sampler's generator
    gen,                \* each caller's generate() frame
    running,            \* the coroutine the event loop is executing, 0 if none
    memo,               \* history, kept by SpecChat: the first greedy generation
                        \* that returned
    \* the gateway: model_router.py and the two services
    svc,                \* _is_initialized of the embedding and the chat service
    np_random,          \* the state of numpy's global generator
    http,               \* history: the last request handled and its response
    ph                  \* history, kept by SpecGateway: the first placeholder
                        \* vector returned, and the text it stood for

backendVars == <<engine_loaded, session_npu, engine_last_perf, cache_size, cache,
                 backend_last_perf, accessOrder, last>>
threadVars == <<tpc, tkey, tvec>>
serviceVars == <<loaded_models, model_info, default_models, lock, waiters,
                 pc, call, constructed, event>>
chatVars == <<chat, rng, gen, running, memo>>
gatewayVars == <<svc, np_random, http, ph>>
vars == <<backendVars, threadVars, serviceVars, chatVars, gatewayVars>>

\* ------------------------------------------------------- sequence helpers
RECURSIVE SeqsUpTo(_, _)
SeqsUpTo(S, n) ==
    IF n = 0 THEN {<<>>}
    ELSE LET shorter == SeqsUpTo(S, n - 1)
         IN shorter \cup {Append(s, x) : s \in {q \in shorter : Len(q) = n - 1}, x \in S}

Range(s) == {s[i] : i \in 1..Len(s)}

Batches == SeqsUpTo(BatchTexts, MaxBatch)

\* ------------------------------------------- OrderedDict (self._cache)
NoVec == [emb |-> "None"]

CacheKeys(c) == [i \in 1..Len(c) |-> c[i].key]
Has(c, k) == \E i \in 1..Len(c) : c[i].key = k
IndexOf(c, k) == CHOOSE i \in 1..Len(c) : c[i].key = k
\* OrderedDict.get(key): the value, or None
DictGet(c, k) == IF Has(c, k) THEN c[IndexOf(c, k)].vec ELSE NoVec
\* OrderedDict.__setitem__: a new key goes last, an old key keeps its place
SetItem(c, k, v) ==
    IF Has(c, k) THEN [c EXCEPT ![IndexOf(c, k)].vec = v]
    ELSE Append(c, [key |-> k, vec |-> v])
\* OrderedDict.move_to_end(key) for a key that is present
MoveToEnd(c, k) ==
    LET e == c[IndexOf(c, k)]
    IN Append(SelectSeq(c, LAMBDA x : x.key # k), e)
\* OrderedDict.popitem(last=False)
PopFirst(c) == Tail(c)

\* ------------------------------------------- OptimizedEmbeddingEngine
NPU_OPTIMAL_BATCH_SIZE == 3

\* the engine's vector for a text (deterministic inference path)
EngineVector(t) == [emb |-> t]

select_optimal_provider(batch_size, npu) ==
    IF batch_size <= NPU_OPTIMAL_BATCH_SIZE THEN "CPU-ARM64"
    ELSE IF npu THEN "Azure"
    ELSE "CPU-ARM64"

NonePerf == [set |-> FALSE, provider |-> "None", batch_size |-> 0]

\* encode(texts): one vector per text, and the performance info
encode(texts, npu) ==
    [embs |-> [i \in 1..Len(texts) |-> EngineVector(texts[i])],
     perf |-> [set |-> TRUE,
               provider |-> select_optimal_provider(Len(texts), npu),
               batch_size |-> Len(texts)]]

\* ------------------------------------------- OnnxEmbeddingBackend cache
\* _cache_get that forgets to mark the key as recently used
cache_get_no_promote(c, size, k) ==
    IF size <= 0 THEN [cache |-> c, vec |-> NoVec]
    ELSE [cache |-> c, vec |-> DictGet(c, k)]

\* _cache_put whose capacity test is off by one
cache_put_off_by_one(c, size, k, v) ==
    IF size <= 0 THEN c
    ELSE LET c1 == MoveToEnd(SetItem(c, k, v), k)
         IN IF Len(c1) > size + 1 THEN PopFirst(c1) ELSE c1

cache_get(c, size, k) ==
    IF size <= 0 THEN [cache |-> c, vec |-> NoVec]
    ELSE LET vec == DictGet(c, k)
         IN IF vec # NoVec THEN [cache |-> MoveToEnd(c, k), vec |-> vec]
            ELSE [cache |-> c, vec |-> vec]

cache_put(c, size, k, v) ==
    IF size <= 0 THEN c
    ELSE LET c1 == MoveToEnd(SetItem(c, k, v), k)
         IN IF Len(c1) > size THEN PopFirst(c1) ELSE c1

\* ------------------------------------------- OnnxEmbeddingBackend.embed
\* names bound in the module namespace of onnx_backend.py by its imports
ModuleGlobals == {"annotations", "OrderedDict", "Dict", "List", "Sequence", "Tuple",
                  "OptimizedEmbeddingEngine", "EmbeddingResult"}
NameDefined(name) == name \in ModuleGlobals

\* lines 61-66: one _cache_get per text, hits and misses keep their position
RECURSIVE partition(_, _, _, _, _, _)
partition(c, size, texts, i, hits, misses) ==
    IF i > Len(texts) THEN [cache |-> c, hits |-> hits, misses |-> misses]
    ELSE LET g == cache_get(c, size, texts[i])
         IN IF g.vec # NoVec
            THEN partition(g.cache, size, texts, i + 1,
                           Append(hits, [idx |-> i, vec |-> g.vec]), misses)
            ELSE partition(g.cache, size, texts, i + 1,
                           hits, Append(misses, [idx |-> i, text |-> texts[i]]))

\* lines 75-78: every computed vector is put, in the order of the misses
RECURSIVE put_misses(_, _, _, _, _)
put_misses(c, size, misses, embs, i) ==
    IF i > Len(misses) THEN c
    ELSE put_misses(cache_put(c, size, misses[i].text, embs[i]), size, misses, embs, i + 1)

miss_vectors(misses, embs) ==
    [j \in {misses[i].idx : i \in 1..Len(misses)} |->
        embs[CHOOSE i \in 1..Len(misses) : misses[i].idx = j]]

\* lines 82-90: prefer the miss vector, else the first hit recorded for i
ordered(n, mv, hits) ==
    [i \in 1..n |->
        IF i \in DOMAIN mv THEN mv[i]
        ELSE hits[CHOOSE h \in 1..Len(hits) :
                    /\ hits[h].idx = i
                    /\ \A g \in 1..(h - 1) : hits[g].idx # i].vec]

NoPerfOut == [provider |-> "None", batch_size |-> 0, cache_enabled |-> FALSE,
              cache_size |-> 0, cache_hits |-> 0, cache_misses |-> 0,
              cache_hit_ratio |-> <<0, 1>>]

\* lines 92-101; perf is the engine's dict, {} when it has none
perf_out(perf, size, n, hits, misses) ==
    [provider |-> perf.provider,
     batch_size |-> perf.batch_size,
     cache_enabled |-> size > 0,
     cache_size |-> size,
     cache_hits |-> Len(hits),
     cache_misses |-> Len(misses),
     cache_hit_ratio |-> <<Len(hits), IF n = 0 THEN 1 ELSE n>>]

\* lines 68-103 of embed, given the partition p of lines 58-66: the exception
\* raised ("None" when it returns), the cache, the engine's and the backend's
\* last perf afterwards, the vectors returned, whether engine.encode was invoked
embed_after(p, size, npu, eperf, bperf, texts) ==
    IF p.misses # <<>> /\ ~NameDefined("time")
    THEN \* line 72: time.perf_counter() with no binding for time
         [raised |-> "NameError", cache |-> p.cache, engine_last_perf |-> eperf,
          backend_last_perf |-> bperf, vectors |-> <<>>, perf |-> NoPerfOut,
          encoded |-> FALSE, hits |-> p.hits, misses |-> p.misses]
    ELSE LET e == encode([i \in 1..Len(p.misses) |-> p.misses[i].text], npu)
             perf == IF p.misses # <<>> THEN e.perf ELSE eperf
             c2 == IF p.misses # <<>>
                   THEN put_misses(p.cache, size, p.misses, e.embs, 1)
                   ELSE p.cache
             mv == miss_vectors(p.misses, e.embs)
             out == perf_out(perf, size, Len(texts), p.hits, p.misses)
         IN [raised |-> "None", cache |-> c2, engine_last_perf |-> perf,
             backend_last_perf |-> out, vectors |-> ordered(Len(texts), mv, p.hits),
             perf |-> out, encoded |-> p.misses # <<>>,
             hits |-> p.hits, misses |-> p.misses]

\* embed(texts) on a loaded backend
embed(c, size, npu, eperf, bperf, texts) ==
    CHOOSE r \in {embed_after(p, size, npu, eperf, bperf, texts) :
                    p \in {partition(c, size, texts, 1, <<>>, <<>>)}} : TRUE

\* ------------------------------------------- history of accesses
\* a key is accessed by a get that hits and by a put that stores it
Touch(order, k) == Append(SelectSeq(order, LAMBDA x : x # k), k)

RECURSIVE TouchAll(_, _, _)
TouchAll(order, keys, i) ==
    IF i > Len(keys) THEN order ELSE TouchAll(Touch(order, keys[i]), keys, i + 1)

NoOp == [op |-> "none", key |-> "None", texts |-> <<>>, raised |-> "None",
         vec |-> NoVec, vectors |-> <<>>, perf |-> NoPerfOut, encoded |-> FALSE,
         hits |-> 0, misses |-> 0, before |-> <<>>, orderBefore |-> <<>>]

\* ------------------------------------------- one caller (Spec)
TypeBackend ==
    /\ engine_loaded \in BOOLEAN
    /\ session_npu \in BOOLEAN
    /\ cache_size \in 0..MaxCap
    /\ \A i \in 1..Len(cache) : cache[i].key \in Texts

InitBackend ==
    /\ engine_loaded = FALSE
    /\ session_npu = FALSE
    /\ engine_last_perf = NonePerf
    /\ cache_size \in 0..MaxCap
    /\ cache = <<>>
    /\ backend_last_perf = NoPerfOut
    /\ accessOrder = <<>>
    /\ last = NoOp

\* load(): constructs the engine once; the alternate session may or may
\* not come up (embedding_engine.py _initialize_sessions)
Load ==
    /\ ~engine_loaded
    /\ engine_loaded' = TRUE
    /\ session_npu' \in BOOLEAN
    /\ engine_last_perf' = NonePerf
    /\ last' = [NoOp EXCEPT !.op = "load", !.before = cache, !.orderBefore = accessOrder]
    /\ UNCHANGED <<cache_size, cache, backend_last_perf, accessOrder>>
    /\ UNCHANGED <<threadVars, serviceVars, chatVars, gatewayVars>>

CacheGet(k) ==
    LET g == cache_get(cache, cache_size, k)
    IN /\ cache' = g.cache
       /\ accessOrder' = IF g.vec # NoVec THEN Touch(accessOrder, k) ELSE accessOrder
       /\ last' = [NoOp EXCEPT !.op = "get", !.key = k, !.vec = g.vec,
                               !.before = cache, !.orderBefore = accessOrder]
       /\ UNCHANGED <<engine_loaded, session_npu, engine_last_perf, cache_size,
                      backend_last_perf>>
       /\ UNCHANGED <<threadVars, serviceVars, chatVars, gatewayVars>>

CachePut(k) ==
    /\ cache' = cache_put(cache, cache_size, k, EngineVector(k))
    /\ accessOrder' = IF cache_size > 0 THEN Touch(accessOrder, k) ELSE accessOrder
    /\ last' = [NoOp EXCEPT !.op = "put", !.key = k, !.vec = EngineVector(k),
                            !.before = cache, !.orderBefore = accessOrder]
    /\ UNCHANGED <<engine_loaded, session_npu, engine_last_perf, cache_size,
                   backend_last_perf>>
    /\ UNCHANGED <<threadVars, serviceVars, chatVars, gatewayVars>>

Embed(texts) ==
    /\ UNCHANGED <<threadVars, serviceVars, chatVars, gatewayVars>>
    /\ IF ~engine_loaded
       THEN /\ last' = [NoOp EXCEPT !.op = "embed", !.texts = texts,
                                    !.raised = "RuntimeError",
                                    !.before = cache, !.orderBefore = accessOrder]
            /\ UNCHANGED <<engine_loaded, session_npu, engine_last_perf, cache_size,
                           cache, backend_last_perf, accessOrder>>
       ELSE \E r \in {embed(cache, cache_size, session_npu, engine_last_perf,
                              backend_last_perf, texts)} :
            LET hitKeys == [i \in 1..Len(r.hits) |-> texts[r.hits[i].idx]]
                putKeys == IF r.raised = "None" /\ cache_size > 0
                           THEN [i \in 1..Len(r.misses) |-> r.misses[i].text]
                           ELSE <<>>
            IN /\ cache' = r.cache
               /\ engine_last_perf' = r.engine_last_perf
               /\ backend_last_perf' = r.backend_last_perf
               /\ accessOrder' = TouchAll(TouchAll(accessOrder, hitKeys, 1), putKeys, 1)
               /\ last' = [NoOp EXCEPT !.op = "embed", !.texts = texts,
                                       !.raised = r.raised, !.vectors = r.vectors,
                                       !.perf = r.perf, !.encoded = r.encoded,
                                       !.hits = Len(r.hits), !.misses = Len(r.misses),
                                       !.before = cache, !.orderBefore = accessOrder]
               /\ UNCHANGED <<engine_loaded, session_npu, cache_size>>

\* ------------------------------------------- GemmaChatModel: text and tokens
\* Texts are sequences of characters.  The tokenizer and the two ONNX
\* sessions are files outside the repository: the vocabulary is cut down to
\* five ids, the two EOS ids among them, and the decoder is a fixed function
\* of the tokens it has been fed.
NUM_LAYERS == 30
max_context == 32768
default_max_new_tokens == 256
eos_token_ids == {1, 106}

Vocab == <<1, 2, 3, 4, 106>>          \* ids, in the order of the logits row
VocabIds == {Vocab[i] : i \in 1..Len(Vocab)}

\* tokenizer.decode of one id with skip_special_tokens=True
TokenText(id) ==
    IF id = 2 THEN <<"a">>
    ELSE IF id = 3 THEN <<" ", "b">>
    ELSE IF id = 4 THEN <<"b", "a">>
    ELSE <<>>

\* tokenizer.decode(generated_ids, skip_special_tokens=True)
RECURSIVE decode(_)
decode(ids) == IF ids = <<>> THEN <<>> ELSE TokenText(Head(ids)) \o decode(Tail(ids))

\* seq in text, for a non-empty seq
OccursAt(text, seq, i) ==
    /\ i + Len(seq) - 1 <= Len(text)
    /\ SubSeq(text, i, i + Len(seq) - 1) = seq
Contains(text, seq) == \E i \in 1..Len(text) : OccursAt(text, seq, i)
FirstIndex(text, seq) ==
    CHOOSE i \in 1..Len(text) :
        OccursAt(text, seq, i) /\ \A j \in 1..(i - 1) : ~OccursAt(text, seq, j)
\* text.split(seq)[0]
SplitFirst(text, seq) == SubSeq(text, 1, FirstIndex(text, seq) - 1)

\* str.strip()
RECURSIVE strip(_)
strip(text) ==
    IF text = <<>> THEN text
    ELSE IF Head(text) = " " THEN strip(Tail(text))
    ELSE IF text[Len(text)] = " " THEN strip(SubSeq(text, 1, Len(text) - 1))
    ELSE text

\* lines 289-296: request.content.get("stop") is a list of strings, <<>> when
\* it is None or empty
normalize_stop_sequences(stop) == IF stop = <<>> THEN <<>> ELSE stop

\* lines 298-306: the first listed non-empty stop string found in the text
\* decides; the text is cut at that string's first occurrence
RECURSIVE apply_stop_sequences(_, _, _)
apply_stop_sequences(text, stop_sequences, i) ==
    IF i > Len(stop_sequences) THEN [text |-> text, stopped |-> FALSE]
    ELSE IF stop_sequences[i] # <<>> /\ Contains(text, stop_sequences[i])
    THEN [text |-> SplitFirst(text, stop_sequences[i]), stopped |-> TRUE]
    ELSE apply_stop_sequences(text, stop_sequences, i + 1)

\* lines 308-315: one block per message and the assistant tag, joined
build_prompt_from_messages(messages) ==
    [i \in 1..Len(messages) |->
        <<"<|", messages[i].role, "|>\n", messages[i].content, "<|end|>">>]
    \o << <<"<|assistant|>\n">> >>

\* len(self.tokenizer.encode(prompt_text).ids): the tokens of the contents
\* and one for the assistant tag
ContentTokens(content) ==
    IF content = "hi" THEN 1
    ELSE IF content = "long" THEN max_context - 2
    ELSE max_context - 1
RECURSIVE encode_len(_)
encode_len(prompt) ==
    IF prompt = <<>> THEN 0
    ELSE (IF Len(Head(prompt)) = 1 THEN 1 ELSE ContentTokens(Head(prompt)[4]))
         + encode_len(Tail(prompt))

\* ------------------------------------------- GemmaChatModel: decoder, sampler
\* lines 250-260
init_past_key_values == [l \in 1..NUM_LAYERS |-> [key |-> 0, value |-> 0]]

\* the row of logits the decoder returns after the prompt and the generated
\* ids so far, given by the weight exp(logit) of each id: a fixed function
\* of what was fed, all weights different
RECURSIVE SumSeq(_)
SumSeq(s) == IF s = <<>> THEN 0 ELSE Head(s) + SumSeq(Tail(s))
DecoderLogits(prompt_tokens, fed) ==
    [i \in 1..Len(Vocab) |->
        ((i + prompt_tokens + SumSeq(fed) + Len(fed)) % Len(Vocab)) + 1]

\* lines 203-248: the embedding and decoder sessions run on seq_len ids at
\* position_offset; presents are the past extended by seq_len
run_decoder_step(seq_len, position_offset, past_key_values, prompt_tokens, fed) ==
    [logits |-> DecoderLogits(prompt_tokens, fed),
     position_ids |-> [j \in 1..seq_len |-> position_offset + j - 1],
     past_seq |-> past_key_values[1].key,
     next_past |-> [l \in 1..NUM_LAYERS |->
                      [key |-> past_key_values[l].key + seq_len,
                       value |-> past_key_values[l].value + seq_len]]]

\* np.argmax: the first index of the largest entry
argmax(logits) ==
    CHOOSE i \in 1..Len(logits) :
        /\ \A j \in 1..Len(logits) : logits[j] <= logits[i]
        /\ \A j \in 1..(i - 1) : logits[j] < logits[i]

\* np.argsort(probs)[::-1]: indices by descending probability
RECURSIVE sorted_desc(_, _)
sorted_desc(probs, left) ==
    IF left = {} THEN <<>>
    ELSE LET top == CHOOSE i \in left :
                        \A j \in left : probs[j] < probs[i] \/ (probs[j] = probs[i] /\ j <= i)
         IN <<top>> \o sorted_desc(probs, left \ {top})

\* rng.choice(a, p=...): the generator's state picks one entry of a
Pick(a, r) == a[((r - 1) % Len(a)) + 1]
RngStates == 1..Len(Vocab)

\* _select_next_token that samples whatever the temperature is
select_next_token_always_samples(logits, temperature, top_p, r) ==
    [index |-> Pick([i \in 1..Len(logits) |-> i], r), drew |-> TRUE]

\* lines 262-287.  temperature is 0 or 1, so probs are the weights over their
\* sum; top_p is the fraction top_p[1] / top_p[2]
select_next_token(logits, temperature, top_p, r) ==
    IF temperature <= 0 THEN [index |-> argmax(logits), drew |-> FALSE]
    ELSE IF 0 < top_p[1] /\ top_p[1] < top_p[2]
    THEN LET sorted_indices == sorted_desc(logits, 1..Len(logits))
             total == SumSeq(logits)
             cumulative(i) == SumSeq([j \in 1..i |-> logits[sorted_indices[j]]])
             cutoff(i) == cumulative(i) * top_p[2] <= top_p[1] * total
             keep(i) == cutoff(i) \/ (i = 1 /\ \A j \in 1..Len(logits) : ~cutoff(j))
             kept == {i \in 1..Len(logits) : keep(i)}
             filtered_indices == [i \in 1..Cardinality(kept) |-> sorted_indices[i]]
         IN [index |-> Pick(filtered_indices, r), drew |-> TRUE]
    ELSE [index |-> Pick([i \in 1..Len(logits) |-> i], r), drew |-> TRUE]

\* ------------------------------------------- GemmaChatModel: generate
NoRequest == [messages |-> <<>>, max_tokens |-> 0, temperature |-> 0,
              top_p |-> <<1, 1>>, stop |-> <<>>]
NoRun == [position_offset |-> 0, past_seq |-> 0, seq_len |-> 0]
NoGen == [pc |-> "idle", request |-> NoRequest, ref |-> 0, cancelled |-> FALSE,
          prompt_token_count |-> 0, max_new_tokens |-> 0, step |-> 0,
          logits |-> <<>>, past_key_values |-> <<>>, total_length |-> 0,
          generated_ids |-> <<>>, finish_reason |-> "None",
          accumulated_text |-> <<>>, text |-> <<>>, tokens |-> 0,
          error |-> "None", runs |-> 0, sampled |-> 0, ended_by |-> "None",
          run |-> NoRun]
NoChat == [id |-> 0, is_loaded |-> FALSE, decoder_session |-> FALSE,
           embed_session |-> FALSE, tokenizer |-> FALSE, in_map |-> FALSE]

\* state is "off" when no history is kept, "empty" until there is one
NoMemo == [state |-> "off", request |-> NoRequest, generated_ids |-> <<>>,
           finish_reason |-> "None", text |-> <<>>, sampled_since |-> FALSE]

Conversations ==
    {<<[role |-> "user", content |-> "hi"]>>,
     <<[role |-> "user", content |-> "long"]>>,
     <<[role |-> "system", content |-> "hi"], [role |-> "user", content |-> "long"]>>}
StopChoices ==
    {<<>>, << <<"a">> >>, << <<>>, <<"b">> >>, << <<"a">>, <<"b">> >>}
Samplings ==
    {[temperature |-> 0, top_p |-> <<1, 1>>],
     [temperature |-> 1, top_p |-> <<1, 1>>],
     [temperature |-> 1, top_p |-> <<1, 2>>]}
Requests ==
    {[messages |-> m, max_tokens |-> n, temperature |-> s.temperature,
      top_p |-> s.top_p, stop |-> st] :
        m \in Conversations, n \in 1..MaxNew, s \in Samplings, st \in StopChoices}
\* requests that leave max_tokens out (None, or 0): greedy, no stop strings
DefaultLengthRequests ==
    {[messages |-> m, max_tokens |-> 0, temperature |-> 0,
      top_p |-> <<1, 1>>, stop |-> <<>>] : m \in Conversations}
\* the requests of the coroutines that run side by side: two tokens at most
\* on the short conversation, greedy or sampled
ConcurrentRequests ==
    {r \in Requests :
        /\ r.messages = <<[role |-> "user", content |-> "hi"]>>
        /\ r.max_tokens = 2
        /\ r.stop = <<>>
        /\ r.top_p = <<1, 1>>}

\* ------------------------------------------- the specifications
NoCall == [op |-> "none", model_id |-> "None", model_type |-> "None", inst |-> 0]
NoModel == [inst |-> 0, kind |-> "None"]
NoInfo == [status |-> "None", model_type |-> "None", provider |-> "None", error |-> "None"]

ThreadsIdle ==
    /\ tpc = [t \in Threads |-> "idle"]
    /\ tkey = [t \in Threads |-> "None"]
    /\ tvec = [t \in Threads |-> NoVec]

ServiceIdle ==
    /\ loaded_models = [m \in ModelIds |-> NoModel]
    /\ model_info = [m \in ModelIds |-> NoInfo]
    /\ default_models = [ty \in ModelTypes |-> "None"]
    /\ lock = 0
    /\ waiters = <<>>
    /\ pc = [t \in Tasks |-> "idle"]
    /\ call = [t \in Tasks |-> NoCall]
    /\ constructed = 0
    /\ event = [task |-> 0, at |-> "none", model_id |-> "None", ret |-> "None"]

\* ------------------------------------------- the gateway's state
\* the values numpy's global generator can hand out for a vector, one per
\* state of the generator
NormalDraws == <<"n1", "n2", "n3">>
NpStates == 1..Len(NormalDraws)

NoServices == [embedding |-> FALSE, chat |-> FALSE]
NoHttp == [endpoint |-> "none", texts |-> <<>>, batch_failed |-> FALSE,
           failed |-> {}, assigned |-> 0, status |-> 0, encoded |-> FALSE,
           embeddings |-> <<>>, errors |-> <<>>, model |-> "None",
           request |-> NoRequest, run_failed |-> FALSE,
           served_by |-> "None", outcome |-> "None", escaped |-> FALSE,
           finish_reason |-> "None", content |-> <<>>]
\* state is "off" when no history is kept, "empty" until there is one
NoPlaceholder == [state |-> "off", text |-> "None", vec |-> NoVec]

GatewayIdle ==
    /\ svc = NoServices
    /\ np_random = 1
    /\ http = NoHttp
    /\ ph = NoPlaceholder

ChatIdle ==
    /\ chat = NoChat
    /\ rng = 1
    /\ gen = [t \in Tasks |-> NoGen]
    /\ running = 0
    /\ memo = NoMemo

Init == InitBackend /\ ThreadsIdle /\ ServiceIdle /\ ChatIdle /\ GatewayIdle

Next ==
    \/ Load
    \/ \E k \in Texts : CacheGet(k)
    \/ \E k \in Texts : CachePut(k)
    \/ \E texts \in Batches : Embed(texts)

Spec == Init /\ [][Next]_vars

\* ------------------------------------------- threads on the cache (SpecThreads)
\* _cache_get and _cache_put run by several threads with no lock around
\* them: each OrderedDict call is one step, a thread switch may fall between
\* any two of them.
InitThreads ==
    /\ engine_loaded = FALSE
    /\ session_npu = FALSE
    /\ engine_last_perf = NonePerf
    /\ cache_size \in 0..MaxCap
    /\ cache = <<>>
    /\ backend_last_perf = NoPerfOut
    /\ accessOrder = <<>>
    /\ last = NoOp
    /\ ThreadsIdle
    /\ ServiceIdle
    /\ ChatIdle
    /\ GatewayIdle

ThreadFrame == UNCHANGED <<engine_loaded, session_npu, engine_last_perf, cache_size,
                           backend_last_perf, accessOrder, last, serviceVars,
                           chatVars, gatewayVars>>

\* lines 39-42: the size test, vec = self._cache.get(key), the None test
GetRead(t, k) ==
    /\ tpc[t] = "idle"
    /\ tkey' = [tkey EXCEPT ![t] = k]
    /\ tvec' = [tvec EXCEPT ![t] = IF cache_size <= 0 THEN NoVec ELSE DictGet(cache, k)]
    /\ tpc' = [tpc EXCEPT ![t] = IF tvec'[t] # NoVec THEN "get_44" ELSE "idle"]
    /\ UNCHANGED cache
    /\ ThreadFrame

\* line 44: self._cache.move_to_end(key), KeyError when the key has gone
GetMoveToEnd(t) ==
    /\ tpc[t] = "get_44"
    /\ IF Has(cache, tkey[t])
       THEN /\ cache' = MoveToEnd(cache, tkey[t])
            /\ tpc' = [tpc EXCEPT ![t] = "idle"]
       ELSE /\ cache' = cache
            /\ tpc' = [tpc EXCEPT ![t] = "KeyError"]
    /\ UNCHANGED <<tkey, tvec>>
    /\ ThreadFrame

\* lines 48-50: the size test, self._cache[key] = vec
PutStore(t, k) ==
    /\ tpc[t] = "idle"
    /\ tkey' = [tkey EXCEPT ![t] = k]
    /\ tvec' = [tvec EXCEPT ![t] = EngineVector(k)]
    /\ IF cache_size <= 0
       THEN /\ cache' = cache
            /\ tpc' = tpc
       ELSE /\ cache' = SetItem(cache, k, EngineVector(k))
            /\ tpc' = [tpc EXCEPT ![t] = "put_51"]
    /\ ThreadFrame

\* line 51: self._cache.move_to_end(key)
PutMoveToEnd(t) ==
    /\ tpc[t] = "put_51"
    /\ IF Has(cache, tkey[t])
       THEN /\ cache' = MoveToEnd(cache, tkey[t])
            /\ tpc' = [tpc EXCEPT ![t] = "put_52"]
       ELSE /\ cache' = cache
            /\ tpc' = [tpc EXCEPT ![t] = "KeyError"]
    /\ UNCHANGED <<tkey, tvec>>
    /\ ThreadFrame

\* line 52: len(self._cache) > self._cache_size
PutTestLen(t) ==
    /\ tpc[t] = "put_52"
    /\ tpc' = [tpc EXCEPT ![t] = IF Len(cache) > cache_size THEN "put_53" ELSE "idle"]
    /\ UNCHANGED <<cache, tkey, tvec>>
    /\ ThreadFrame

\* line 53: self._cache.popitem(last=False), KeyError on an empty dict
PutPopItem(t) ==
    /\ tpc[t] = "put_53"
    /\ IF cache # <<>>
       THEN /\ cache' = PopFirst(cache)
            /\ tpc' = [tpc EXCEPT ![t] = "idle"]
       ELSE /\ cache' = cache
            /\ tpc' = [tpc EXCEPT ![t] = "KeyError"]
    /\ UNCHANGED <<tkey, tvec>>
    /\ ThreadFrame

NextThreads ==
    \/ \E t \in Threads, k \in Texts : GetRead(t, k)
    \/ \E t \in Threads : GetMoveToEnd(t)
    \/ \E t \in Threads, k \in Texts : PutStore(t, k)
    \/ \E t \in Threads : PutMoveToEnd(t)
    \/ \E t \in Threads : PutTestLen(t)
    \/ \E t \in Threads : PutPopItem(t)

SpecThreads == InitThreads /\ [][NextThreads]_vars

\* ------------------------------------------- ModelService (SpecService)
\* Coroutines on one event loop.  A coroutine runs without interruption up to
\* its next await; at `async with self._initialization_lock` it goes on at
\* once when the lock is free and nobody waits, and at the awaits of the
\* backend's load and unload the loop may run the other coroutines.
InitService ==
    /\ engine_loaded = FALSE
    /\ session_npu = FALSE
    /\ engine_last_perf = NonePerf
    /\ cache_size = 0
    /\ cache = <<>>
    /\ backend_last_perf = NoPerfOut
    /\ accessOrder = <<>>
    /\ last = NoOp
    /\ ThreadsIdle
    /\ ServiceIdle
    /\ ChatIdle
    /\ GatewayIdle

ServiceFrame == UNCHANGED <<backendVars, threadVars, chatVars, gatewayVars>>

\* model_id in self.loaded_models
InLoadedModels(id) == loaded_models[id] # NoModel

\* a load_model that never finds the id loaded
AlreadyLoaded_never(id) == FALSE

\* line 73: if model_id in self.loaded_models
AlreadyLoaded(id) == InLoadedModels(id)

\* lines 152: the status unload_model records, left as it was
UnloadedStatus_forgotten(info) == info

\* lines 151-152: self.model_info[model_id].status = ModelStatus.UNLOADED
UnloadedStatus(info) ==
    IF info # NoInfo THEN [info EXCEPT !.status = "unloaded"] ELSE info

\* hasattr(model, "unload"): GemmaChatModel has it, OptimizedEmbeddingEngine not
HasUnload(model) == model.kind = "chat"

\* lines 72-99, entered with the lock taken: up to the first await, or to the
\* return when there is none on the path
LoadBody(t, id, ty) ==
    IF AlreadyLoaded(id)
    THEN \* lines 73-75
         /\ event' = [task |-> t, at |-> "load_body", model_id |-> id, ret |-> "True"]
         /\ pc' = [pc EXCEPT ![t] = "idle"]
         /\ call' = [call EXCEPT ![t] = NoCall]
         /\ lock' = 0
         /\ UNCHANGED <<loaded_models, model_info, default_models, constructed>>
    ELSE IF ty \in {"embeddings", "chat"}
    THEN \* lines 78-97; _load_chat_model constructs GemmaChatModel before
         \* it awaits load(), the engine is constructed by the awaited call
         /\ model_info' = [model_info EXCEPT ![id] =
                [status |-> "loading", model_type |-> ty,
                 provider |-> "None", error |-> "None"]]
         /\ constructed' = IF ty = "chat" THEN constructed + 1 ELSE constructed
         /\ call' = [call EXCEPT ![t] = [op |-> "load", model_id |-> id,
                                         model_type |-> ty, inst |-> constructed']]
         /\ pc' = [pc EXCEPT ![t] = "load_await"]
         /\ lock' = t
         /\ event' = [task |-> t, at |-> "load_body", model_id |-> id, ret |-> "None"]
         /\ UNCHANGED <<loaded_models, default_models>>
    ELSE \* line 99 raises ValueError, lines 118-123 record it
         /\ model_info' = [model_info EXCEPT ![id] =
                [status |-> "error", model_type |-> ty,
                 provider |-> "None", error |-> "Unknown model type"]]
         /\ call' = [call EXCEPT ![t] = NoCall]
         /\ event' = [task |-> t, at |-> "load_body", model_id |-> id, ret |-> "False"]
         /\ pc' = [pc EXCEPT ![t] = "idle"]
         /\ lock' = 0
         /\ UNCHANGED <<loaded_models, default_models, constructed>>

\* load_model(model_id, model_path, model_type) is called: line 71
LoadCall(t, id, ty) ==
    /\ pc[t] = "idle"
    /\ constructed < MaxInstances
    /\ IF lock = 0 /\ waiters = <<>>
       THEN /\ LoadBody(t, id, ty)
            /\ UNCHANGED waiters
       ELSE /\ waiters' = Append(waiters, t)
            /\ pc' = [pc EXCEPT ![t] = "load_wait"]
            /\ call' = [call EXCEPT ![t] = [op |-> "load", model_id |-> id,
                                            model_type |-> ty, inst |-> 0]]
            /\ event' = [task |-> t, at |-> "load_wait", model_id |-> id, ret |-> "None"]
            /\ UNCHANGED <<loaded_models, model_info, default_models, lock,
                           constructed>>
    /\ ServiceFrame

\* the lock was released and this coroutine is the first waiter
LoadAcquire(t) ==
    /\ pc[t] = "load_wait"
    /\ lock = 0
    /\ waiters # <<>>
    /\ Head(waiters) = t
    /\ waiters' = Tail(waiters)
    /\ LoadBody(t, call[t].model_id, call[t].model_type)
    /\ ServiceFrame

\* lines 93-123 after the awaited _load_embedding_model / _load_chat_model:
\* ok is whether the model files were found and the sessions came up
LoadFinish(t, ok) ==
    LET id == call[t].model_id
        ty == call[t].model_type
    IN /\ pc[t] = "load_await"
       /\ IF ok
          THEN \* lines 101-113
               /\ constructed' = IF ty = "chat" THEN constructed ELSE constructed + 1
               /\ loaded_models' = [loaded_models EXCEPT ![id] =
                      [inst |-> IF ty = "chat" THEN call[t].inst ELSE constructed',
                       kind |-> ty]]
               /\ model_info' = [model_info EXCEPT ![id] =
                      [@ EXCEPT !.status = "loaded",
                                !.provider = IF ty = "chat" THEN "CPUExecutionProvider"
                                             ELSE @]]
               /\ default_models' = [default_models EXCEPT ![ty] =
                      IF @ = "None" THEN id ELSE @]
          ELSE \* chat: load() returned False, lines 114-116; embeddings: the
               \* engine's constructor raised, lines 118-123
               /\ model_info' = [model_info EXCEPT ![id] =
                      [@ EXCEPT !.status = "error",
                                !.error = IF ty = "chat" THEN @
                                          ELSE "Model file not found"]]
               /\ UNCHANGED <<loaded_models, default_models, constructed>>
       /\ pc' = [pc EXCEPT ![t] = "idle"]
       /\ lock' = 0
       /\ event' = [task |-> t, at |-> "load_finish", model_id |-> id,
                    ret |-> IF ok THEN "True" ELSE "False"]
       /\ call' = [call EXCEPT ![t] = NoCall]
       /\ UNCHANGED waiters
       /\ ServiceFrame

\* lines 149-155: del self.loaded_models[model_id] and what follows it
UnloadDelete(t, id, at) ==
    IF InLoadedModels(id)
    THEN /\ loaded_models' = [loaded_models EXCEPT ![id] = NoModel]
         /\ model_info' = [model_info EXCEPT ![id] = UnloadedStatus(@)]
         /\ event' = [task |-> t, at |-> at, model_id |-> id, ret |-> "True"]
    ELSE \* line 149 raises KeyError, lines 160-162; or lines 156-158
         /\ event' = [task |-> t, at |-> at, model_id |-> id, ret |-> "False"]
         /\ UNCHANGED <<loaded_models, model_info>>

\* unload_model(model_id) is called: lines 141-147, and on to the return
\* when the model has no unload to await
UnloadCall(t, id) ==
    /\ pc[t] = "idle"
    /\ IF InLoadedModels(id) /\ HasUnload(loaded_models[id])
       THEN /\ call' = [call EXCEPT ![t] = [op |-> "unload", model_id |-> id,
                           model_type |-> "None", inst |-> loaded_models[id].inst]]
            /\ pc' = [pc EXCEPT ![t] = "unload_await"]
            /\ event' = [task |-> t, at |-> "unload_call", model_id |-> id,
                         ret |-> "None"]
            /\ UNCHANGED <<loaded_models, model_info>>
       ELSE /\ UNCHANGED <<call, pc>>
            /\ UnloadDelete(t, id, "unload_call")
    /\ UNCHANGED <<default_models, lock, waiters, constructed>>
    /\ ServiceFrame

\* the awaited model.unload() is over: lines 149-155
UnloadFinish(t) ==
    /\ pc[t] = "unload_await"
    /\ UnloadDelete(t, call[t].model_id, "unload_finish")
    /\ pc' = [pc EXCEPT ![t] = "idle"]
    /\ call' = [call EXCEPT ![t] = NoCall]
    /\ UNCHANGED <<default_models, lock, waiters, constructed>>
    /\ ServiceFrame

NextService ==
    \/ \E t \in Tasks, id \in ModelIds, ty \in ModelTypes : LoadCall(t, id, ty)
    \/ \E t \in Tasks : LoadAcquire(t)
    \/ \E t \in Tasks, ok \in BOOLEAN : LoadFinish(t, ok)
    \/ \E t \in Tasks, id \in ModelIds : UnloadCall(t, id)
    \/ \E t \in Tasks : UnloadFinish(t)

SpecService == InitService /\ [][NextService]_vars

\* ------------------------------------------- GemmaChatModel and its callers
\* the instance a caller holds is usable: line 108
IsLoaded(ref) ==
    /\ ref = chat.id
    /\ chat.is_loaded /\ chat.decoder_session /\ chat.embed_session /\ chat.tokenizer

\* lines 127-129
max_new_tokens(max_tokens) ==
    IF max_tokens <= 0 THEN default_max_new_tokens ELSE max_tokens

\* unload(), lines 101-105, and del self.loaded_models[model_id]
unload(c) == [c EXCEPT !.decoder_session = FALSE, !.embed_session = FALSE,
                       !.tokenizer = FALSE, !.is_loaded = FALSE, !.in_map = FALSE]

\* a decode loop that awaits between two iterations
AwaitsInLoop_each_step == TRUE

\* lines 153-179 hold no await: the loop never hands the event loop back
AwaitsInLoop == FALSE

\* the step's input position: prompt_token_count + len(generated_ids)
position_offset_one_late(prompt_token_count, generated_ids) ==
    prompt_token_count + Len(generated_ids)

\* line 177
position_offset(prompt_token_count, generated_ids) ==
    prompt_token_count + Len(generated_ids) - 1

\* the EOS id left in generated_ids
drop_eos_forgotten(generated_ids) == generated_ids

\* line 159: generated_ids.pop()
drop_eos(generated_ids) == SubSeq(generated_ids, 1, Len(generated_ids) - 1)

\* the context test made before the stop strings are looked at
finish_reason_context_first(stopped, total_length) ==
    IF total_length + 1 >= max_context THEN "length"
    ELSE IF stopped THEN "stop" ELSE "None"

\* lines 166-173: a stop string ends the loop before the context test
finish_reason_of(stopped, total_length) ==
    IF stopped THEN "stop"
    ELSE IF total_length + 1 >= max_context THEN "length" ELSE "None"

\* the prompt test that lets a prompt of max_context tokens through
prompt_too_long_off_by_one(prompt_token_count) == prompt_token_count > max_context

\* line 122
prompt_too_long(prompt_token_count) == prompt_token_count >= max_context

\* lines 185-201: the ChatGeneration returned
Returned(g, generated_ids, finish_reason, accumulated_text, ended_by) ==
    LET text == IF accumulated_text = <<>> THEN decode(generated_ids)
                ELSE accumulated_text
    IN [g EXCEPT !.pc = "returned", !.generated_ids = generated_ids,
                 !.finish_reason = finish_reason, !.accumulated_text = text,
                 !.text = strip(text), !.tokens = Len(generated_ids),
                 !.ended_by = ended_by]

\* history: the first greedy generation that returns is remembered, and so
\* is whether the generator was drawn from since
Remember(g, drew) ==
    IF memo.state = "empty" /\ g.pc = "returned" /\ g.request.temperature <= 0
    THEN [state |-> "set", request |-> g.request,
          generated_ids |-> g.generated_ids, finish_reason |-> g.finish_reason,
          text |-> g.text, sampled_since |-> FALSE]
    ELSE IF memo.state = "set" /\ drew THEN [memo EXCEPT !.sampled_since = TRUE]
    ELSE memo

\* the identity of a newly constructed instance: one that no caller holds
FreshId ==
    CHOOSE i \in 1..(NumTasks + 1) :
        /\ \A t \in Tasks : gen[t].ref # i
        /\ \A j \in 1..(i - 1) : \E t \in Tasks : gen[t].ref = j

ChatFrame == UNCHANGED <<backendVars, threadVars, serviceVars, gatewayVars>>

\* _load_chat_model, model_service.py lines 131-137, and lines 101-103 that
\* put the instance in the map: a new GemmaChatModel with its own generator,
\* load() finding its files or not
GemmaLoad(ok) ==
    /\ running = 0
    /\ ~chat.in_map
    /\ chat' = [id |-> FreshId, is_loaded |-> ok, decoder_session |-> ok,
                embed_session |-> ok, tokenizer |-> ok, in_map |-> ok]
    /\ rng' \in RngStates
    /\ UNCHANGED <<gen, running, memo>>
    /\ ChatFrame

\* unload_model of the chat model, model_service.py lines 142-155
Unload ==
    /\ running = 0
    /\ chat.in_map
    /\ chat' = unload(chat)
    /\ UNCHANGED <<rng, gen, running, memo>>
    /\ ChatFrame

\* a caller takes the instance from the service (get_model, model_service.py
\* lines 164-166, as chat_service.py line 101 does) and has its request
\* ready; its generate() call comes at a later turn of the event loop
Submit(t, request) ==
    /\ running = 0
    /\ gen[t].pc = "idle"
    /\ chat.in_map
    /\ gen' = [gen EXCEPT ![t] = [NoGen EXCEPT !.pc = "pending", !.request = request,
                                               !.ref = chat.id]]
    /\ UNCHANGED <<chat, rng, running, memo>>
    /\ ChatFrame

\* generate() is entered: lines 108-137
GenerateCall(t) ==
    LET g == gen[t]
        n == encode_len(build_prompt_from_messages(g.request.messages))
    IN /\ running = 0
       /\ g.pc = "pending"
       /\ running' = t
       /\ gen' = [gen EXCEPT ![t] =
              IF ~IsLoaded(g.ref)
              THEN [g EXCEPT !.pc = "raised", !.error = "RuntimeError"]
              ELSE IF prompt_too_long(n)
              THEN [g EXCEPT !.pc = "raised", !.error = "ValueError",
                             !.prompt_token_count = n]
              ELSE [g EXCEPT !.pc = "prefill", !.prompt_token_count = n,
                             !.max_new_tokens = max_new_tokens(g.request.max_tokens)]]
       /\ UNCHANGED <<chat, rng, memo>>
       /\ ChatFrame

\* lines 139-151: a fresh KV cache and the decoder run on the whole prompt
Prefill(t) ==
    LET g == gen[t]
        d == run_decoder_step(g.prompt_token_count, 0, init_past_key_values,
                              g.prompt_token_count, <<>>)
    IN /\ running \in {0, t}
       /\ g.pc = "prefill"
       /\ running' = t
       /\ gen' = [gen EXCEPT ![t] =
              IF ~IsLoaded(g.ref)
              THEN [g EXCEPT !.pc = "raised", !.error = "RuntimeError"]
              ELSE [g EXCEPT !.pc = "loop", !.total_length = g.prompt_token_count,
                             !.logits = d.logits, !.past_key_values = d.next_past,
                             !.runs = 1,
                             !.run = [position_offset |-> 0, past_seq |-> d.past_seq,
                                      seq_len |-> g.prompt_token_count]]]
       /\ UNCHANGED <<chat, rng, memo>>
       /\ ChatFrame

\* a loop that goes round once more than it was given
loop_has_next_one_more(step, n) == step <= n

\* line 153, `for step in range(max_new_tokens)`: whether the loop has an
\* iteration left after `step` of them
loop_has_next(step, n) == step < n

\* one iteration of the loop, lines 153-179, and lines 185-201 when it
\* breaks: the frame afterwards, and whether the generator was drawn from
loop_iteration(g, r) ==
    LET sel == select_next_token(g.logits, g.request.temperature, g.request.top_p, r)
        next_token_id == Vocab[sel.index]
        generated_ids == Append(g.generated_ids, next_token_id)
        g1 == [g EXCEPT !.sampled = g.sampled + 1, !.step = g.step + 1]
        stop_sequences == normalize_stop_sequences(g.request.stop)
        a == apply_stop_sequences(decode(generated_ids), stop_sequences, 1)
        reason == finish_reason_of(a.stopped, g.total_length)
        offset == position_offset(g.prompt_token_count, generated_ids)
        d == run_decoder_step(1, offset, g.past_key_values,
                              g.prompt_token_count, generated_ids)
    IN [drew |-> sel.drew,
        gen |-> IF next_token_id \in eos_token_ids
                THEN Returned(g1, drop_eos(generated_ids), "stop",
                              g.accumulated_text, "eos")
                ELSE IF reason = "stop"
                THEN Returned(g1, generated_ids, "stop", a.text, "stop_string")
                ELSE IF reason = "length"
                THEN Returned([g1 EXCEPT !.total_length = g.total_length + 1],
                              generated_ids, "length", a.text, "context")
                ELSE [g1 EXCEPT !.generated_ids = generated_ids,
                                !.accumulated_text = a.text,
                                !.total_length = g.total_length + 1,
                                !.logits = d.logits,
                                !.past_key_values = d.next_past,
                                !.runs = g.runs + 1,
                                !.run = [position_offset |-> offset,
                                         past_seq |-> d.past_seq,
                                         seq_len |-> 1]]]

SampleStep(t) ==
    /\ running \in {0, t}
    /\ gen[t].pc = "loop"
    /\ loop_has_next(gen[t].step, gen[t].max_new_tokens)
    /\ IF ~IsLoaded(gen[t].ref)
       THEN \* the tokenizer and the sessions are gone: lines 163, 211
            /\ gen' = [gen EXCEPT ![t].pc = "raised", ![t].error = "RuntimeError"]
            /\ running' = t
            /\ rng' = rng
            /\ memo' = memo
       ELSE \E it \in {loop_iteration(gen[t], rng)} :
            /\ gen' = [gen EXCEPT ![t] = it.gen]
            /\ memo' = Remember(it.gen, it.drew)
            /\ IF it.drew THEN rng' \in RngStates ELSE rng' = rng
            /\ running' = IF it.gen.pc = "loop" /\ AwaitsInLoop THEN 0 ELSE t
    /\ UNCHANGED chat
    /\ ChatFrame

\* the loop ran max_new_tokens times: lines 181-183, then lines 185-201
Exhausted(t) ==
    /\ running \in {0, t}
    /\ gen[t].pc = "loop"
    /\ ~loop_has_next(gen[t].step, gen[t].max_new_tokens)
    /\ \E g2 \in {Returned(gen[t], gen[t].generated_ids, "length",
                            decode(gen[t].generated_ids), "exhausted")} :
          /\ gen' = [gen EXCEPT ![t] = g2]
          /\ memo' = Remember(g2, FALSE)
    /\ running' = t
    /\ UNCHANGED <<chat, rng>>
    /\ ChatFrame

\* the ChatGeneration, or the exception, reaches the caller, whose coroutine
\* goes on to its end without awaiting (chat_service.py lines 123-181)
ReturnToCaller(t) ==
    /\ running = t
    /\ gen[t].pc \in {"returned", "raised"}
    /\ gen' = [gen EXCEPT ![t] = NoGen]
    /\ running' = 0
    /\ UNCHANGED <<chat, rng, memo>>
    /\ ChatFrame

\* the request's deadline passes, or its caller gives up, while generate()
\* is at work on it
Cancel(t) ==
    /\ gen[t].pc \in {"prefill", "loop"}
    /\ ~gen[t].cancelled
    /\ gen' = [gen EXCEPT ![t].cancelled = TRUE]
    /\ UNCHANGED <<chat, rng, running, memo>>
    /\ ChatFrame

\* ------------------------------------------- one caller of generate (SpecGen)
Caller == CHOOSE t \in Tasks : \A u \in Tasks : t <= u

InitGen == InitService

NextGen ==
    \/ \E ok \in BOOLEAN : GemmaLoad(ok)
    \/ Unload
    \/ \E request \in Requests \cup DefaultLengthRequests : Submit(Caller, request)
    \/ GenerateCall(Caller)
    \/ Prefill(Caller)
    \/ SampleStep(Caller)
    \/ Exhausted(Caller)
    \/ ReturnToCaller(Caller)

SpecGen == InitGen /\ [][NextGen]_vars

\* ------------------------------------------- coroutines on the chat model (SpecChat)
InitChat ==
    /\ InitBackend /\ cache_size = 0
    /\ ThreadsIdle
    /\ ServiceIdle
    /\ chat = NoChat
    /\ rng = 1
    /\ gen = [t \in Tasks |-> NoGen]
    /\ running = 0
    /\ memo = [NoMemo EXCEPT !.state = "empty"]
    /\ GatewayIdle

NextChat ==
    \/ \E ok \in BOOLEAN : GemmaLoad(ok)
    \/ Unload
    \/ \E t \in Tasks, request \in ConcurrentRequests : Submit(t, request)
    \/ \E t \in Tasks : GenerateCall(t)
    \/ \E t \in Tasks : Prefill(t)
    \/ \E t \in Tasks : SampleStep(t)
    \/ \E t \in Tasks : Exhausted(t)
    \/ \E t \in Tasks : ReturnToCaller(t)
    \/ \E t \in Tasks : Cancel(t)

SpecChat == InitChat /\ [][NextChat]_vars

\* ------------------------------------------- the gateway (SpecGateway)
\* embedding_engine.py lines 299-301: np.random.normal(0, 0.1, 384),
\* normalised, drawn from numpy's global generator in state s
fallback(s) == [emb |-> NormalDraws[s]]
\* the generator after k draws
np_advance(s, k) == ((s - 1 + k) % Len(NormalDraws)) + 1

\* embedding_engine.py lines 291-302: the per-text loop run after the batch
\* run failed; fails holds the positions whose single run fails too, each of
\* which takes the generator's next draw
per_text_loop(texts, fails, s) ==
    LET drawn_before(i) == Cardinality({j \in fails : j < i})
    IN [embeddings |->
            [i \in 1..Len(texts) |->
                IF i \in fails THEN fallback(np_advance(s, drawn_before(i)))
                ELSE EngineVector(texts[i])],
        np_random |-> np_advance(s, Cardinality(fails \cap (1..Len(texts))))]

\* embedding_engine.py lines 278-302 of encode: the batch run, and the
\* per-text loop when it raises
encode_inference(texts, batch_fails, fails, s) ==
    IF ~batch_fails
    THEN [embeddings |-> [i \in 1..Len(texts) |-> EngineVector(texts[i])],
          np_random |-> s]
    ELSE per_text_loop(texts, fails, s)

\* embedding_service.py line 86: the largest batch process_embeddings takes
batch_limit == 100

\* a batch test that turns away the batch of batch_limit texts as well
batch_too_large_off_by_one(n) == n >= batch_limit

\* embedding_service.py line 86
batch_too_large(n) == n > batch_limit

\* EmbeddingService.process_embeddings, embedding_service.py lines 60-124:
\* the exception it raises ("None" when it returns), the EmbeddingResult's
\* embeddings and errors, whether engine.encode was called
process_embeddings(initialized, texts, batch_fails, fails, s) ==
    IF ~initialized
    THEN [raised |-> "RuntimeError", embeddings |-> <<>>, errors |-> <<>>,
          encoded |-> FALSE, np_random |-> s]
    ELSE IF texts = <<>> \/ batch_too_large(Len(texts))
    THEN \* lines 83-87, raised again at line 124
         [raised |-> "ValueError", embeddings |-> <<>>, errors |-> <<>>,
          encoded |-> FALSE, np_random |-> s]
    ELSE LET e == encode_inference(texts, batch_fails, fails, s)
         IN \* lines 93-104: no row of the array is None
            [raised |-> "None", embeddings |-> e.embeddings,
             errors |-> [i \in 1..Len(texts) |-> "None"],
             encoded |-> TRUE, np_random |-> e.np_random]

\* the first placeholder of a result, remembered with its text
RememberPlaceholder(texts, batch_fails, fails, r) ==
    IF ph.state = "empty" /\ r.raised = "None" /\ batch_fails /\ fails # {}
    THEN LET i == CHOOSE i \in fails : \A j \in fails : i <= j
         IN [state |-> "set", text |-> texts[i], vec |-> r.embeddings[i]]
    ELSE ph

\* the status of the response when the handler's own try block raised an
\* HTTPException with this status: model_router.py lines 389-394 and
\* 461-466 catch every Exception, HTTPException included
HandlerResponse(assigned) == 500

\* create_embeddings, model_router.py lines 337-394: the status the handler
\* assigned when it turned the request away (0 when it did not), and the
\* status of the response
create_embeddings(initialized, texts, batch_fails, fails, s) ==
    IF ~initialized
    THEN [assigned |-> 503, status |-> HandlerResponse(503),
          result |-> process_embeddings(FALSE, <<>>, FALSE, {}, s),
          called |-> FALSE]
    ELSE IF texts = <<>>
    THEN [assigned |-> 400, status |-> HandlerResponse(400),
          result |-> process_embeddings(FALSE, <<>>, FALSE, {}, s),
          called |-> FALSE]
    ELSE LET r == process_embeddings(initialized, texts, batch_fails, fails, s)
         IN IF r.raised # "None"
            THEN [assigned |-> 500, status |-> HandlerResponse(500),
                  result |-> r, called |-> TRUE]
            ELSE [assigned |-> 0, status |-> 200, result |-> r, called |-> TRUE]

\* the texts lists of the requests: short ones of every make, and long ones
\* around batch_limit
Fill(n) == [i \in 1..n |-> "a"]
EmbeddingInputs ==
    {<<>>} \cup {<<a>> : a \in BatchTexts}
           \cup {<<a, b>> : a \in BatchTexts, b \in BatchTexts}
           \cup {Fill(batch_limit - 1), Fill(batch_limit), Fill(batch_limit + 1)}
\* the positions whose single run may fail
FailChoices(texts) == SUBSET ((1..Len(texts)) \cap (1..Cardinality(BatchTexts)))

GatewayFrame == UNCHANGED <<backendVars, threadVars, chatVars>>

\* EmbeddingService.initialize, embedding_service.py lines 47-58, called at
\* startup (model_router.py line 182): the engine is constructed or not
InitializeEmbeddingService(ok) ==
    /\ ~svc.embedding
    /\ http.endpoint = "none"
    /\ svc' = [svc EXCEPT !.embedding = ok]
    /\ UNCHANGED <<np_random, http, ph, serviceVars>>
    /\ GatewayFrame

\* a direct call of EmbeddingService.process_embeddings
ProcessEmbeddings(texts, batch_fails, fails) ==
    \E r \in {process_embeddings(svc.embedding, texts, batch_fails, fails, np_random)} :
        /\ http' = [NoHttp EXCEPT !.endpoint = "process_embeddings",
                                  !.texts = texts, !.batch_failed = batch_fails,
                                  !.failed = fails, !.outcome = r.raised,
                                  !.encoded = r.encoded,
                                  !.embeddings = r.embeddings, !.errors = r.errors]
        /\ np_random' = r.np_random
        /\ ph' = RememberPlaceholder(texts, batch_fails, fails, r)
        /\ UNCHANGED <<svc, serviceVars>>
        /\ GatewayFrame

\* POST /v1/embeddings
CreateEmbeddings(texts, batch_fails, fails) ==
    \E c \in {create_embeddings(svc.embedding, texts, batch_fails, fails, np_random)} :
        /\ http' = [NoHttp EXCEPT !.endpoint = "/v1/embeddings",
                                  !.texts = texts, !.batch_failed = batch_fails,
                                  !.failed = fails, !.assigned = c.assigned,
                                  !.status = c.status,
                                  !.outcome = IF c.called THEN c.result.raised
                                              ELSE "None",
                                  !.encoded = c.called /\ c.result.encoded,
                                  !.embeddings = c.result.embeddings,
                                  !.errors = c.result.errors]
        /\ np_random' = c.result.np_random
        /\ ph' = IF c.called
                 THEN RememberPlaceholder(texts, batch_fails, fails, c.result)
                 ELSE ph
        /\ UNCHANGED <<svc, serviceVars>>
        /\ GatewayFrame

\* the loop of generate run to its end with temperature 0: lines 153-201
RECURSIVE run_loop(_)
run_loop(g) ==
    IF g.pc # "loop" THEN g
    ELSE IF g.step >= g.max_new_tokens
    THEN Returned(g, g.generated_ids, "length", decode(g.generated_ids), "exhausted")
    ELSE run_loop(loop_iteration(g, 1).gen)

\* GemmaChatModel.generate on a loaded instance, gemma_model.py lines
\* 107-201, for a request with temperature 0: the exception it raises
\* ("None" when it returns) and the frame it ends in; run_fails is whether
\* the sessions' run raises
generate(request, run_fails) ==
    LET n == encode_len(build_prompt_from_messages(request.messages))
        d == run_decoder_step(n, 0, init_past_key_values, n, <<>>)
        g == [NoGen EXCEPT !.request = request, !.prompt_token_count = n,
                           !.max_new_tokens = max_new_tokens(request.max_tokens)]
    IN IF prompt_too_long(n)
       THEN [raised |-> "ValueError", gen |-> g]
       ELSE IF run_fails
       THEN [raised |-> "InferenceFailure", gen |-> g]
       ELSE [raised |-> "None",
             gen |-> run_loop([g EXCEPT !.pc = "loop", !.total_length = n,
                                        !.logits = d.logits,
                                        !.past_key_values = d.next_past,
                                        !.runs = 1,
                                        !.run = [position_offset |-> 0,
                                                 past_seq |-> d.past_seq,
                                                 seq_len |-> n]])]

\* the chat requests of the gateway: the router passes top_p = 1.0 and
\* stop = None (model_router.py lines 423-431); temperature is 0
ChatInputs ==
    {r \in Requests : r.temperature = 0 /\ r.stop = <<>> /\ r.max_tokens = MaxNew}
EmptyChat == [NoRequest EXCEPT !.max_tokens = MaxNew]

\* chat_model.process(unified_request), chat/base.py lines 43-72: what
\* generate comes to for each request of the gateway
Generation ==
    [request \in ChatInputs |-> [run_fails \in BOOLEAN |-> generate(request, run_fails)]]

\* the content of the ChatResult made of an exception: chat_service.py line 171
ErrorContent == <<"E", "r", "r", "o", "r", ":">>

\* ModelService.list_models_by_type, model_service.py lines 184-190
list_models_by_type(ty) == {id \in ModelIds : model_info[id].model_type = ty}
\* ModelService.get_default_model_id, model_service.py lines 180-182
get_default_model_id(ty) == default_models[ty]
\* ModelService.get_model, model_service.py lines 164-166
get_model(id) == loaded_models[id]

\* chat_service.py lines 94-99: model or the chat default, else the first
\* model of type chat, "None" when there is none
target_model_id(model) ==
    IF model # "None" THEN model
    ELSE IF get_default_model_id("chat") # "None" THEN get_default_model_id("chat")
    ELSE IF list_models_by_type("chat") = {} THEN "None"
    ELSE CHOOSE id \in list_models_by_type("chat") : TRUE

\* ChatService.process_chat, chat_service.py lines 62-181: the exception met
\* on the way ("None" when none), whether it left process_chat, the model
\* that generated, and the ChatResult's finish_reason and content
process_chat(initialized, model, request, run_fails) ==
    LET target == target_model_id(model)
        error(e) == [raised |-> e, escaped |-> FALSE, served_by |-> "None",
                     finish_reason |-> "error", content |-> ErrorContent]
    IN IF ~initialized
       THEN \* lines 87-88, before the try
            [raised |-> "RuntimeError", escaped |-> TRUE, served_by |-> "None",
             finish_reason |-> "None", content |-> <<>>]
       ELSE IF target = "None" THEN error("RuntimeError")
       ELSE IF get_model(target) = NoModel THEN error("RuntimeError")
       ELSE IF get_model(target).kind # "chat" THEN error("AttributeError")
       ELSE LET r == Generation[request][run_fails]
            IN IF r.raised # "None" THEN error(r.raised)
               ELSE [raised |-> "None", escaped |-> FALSE, served_by |-> target,
                     finish_reason |-> r.gen.finish_reason, content |-> r.gen.text]

\* create_chat_completion, model_router.py lines 398-466
create_chat_completion(initialized, model, request, run_fails) ==
    IF ~initialized
    THEN [assigned |-> 503, status |-> HandlerResponse(503), called |-> FALSE,
          result |-> process_chat(FALSE, model, request, run_fails)]
    ELSE IF request.messages = <<>>
    THEN [assigned |-> 400, status |-> HandlerResponse(400), called |-> FALSE,
          result |-> process_chat(FALSE, model, request, run_fails)]
    ELSE LET r == process_chat(initialized, model, request, run_fails)
         IN IF r.escaped
            THEN [assigned |-> 0, status |-> 500, called |-> TRUE, result |-> r]
            ELSE [assigned |-> 0, status |-> 200, called |-> TRUE, result |-> r]

\* ChatService.initialize, chat_service.py lines 51-60, called at startup
\* once load_model of the chat model has returned True (model_router.py
\* lines 205-211)
InitializeChatService ==
    /\ ~svc.chat
    /\ event.at \in {"load_body", "load_finish"}
    /\ event.ret = "True"
    /\ model_info[event.model_id].model_type = "chat"
    /\ svc' = [svc EXCEPT !.chat = TRUE]
    /\ UNCHANGED <<np_random, http, ph, serviceVars>>
    /\ GatewayFrame

\* a direct call of ChatService.process_chat
ProcessChat(model, request, run_fails) ==
    \E r \in {process_chat(svc.chat, model, request, run_fails)} :
        /\ http' = [NoHttp EXCEPT !.endpoint = "process_chat", !.model = model,
                                  !.request = request, !.run_failed = run_fails,
                                  !.outcome = r.raised, !.escaped = r.escaped,
                                  !.served_by = r.served_by,
                                  !.finish_reason = r.finish_reason,
                                  !.content = r.content]
        /\ UNCHANGED <<svc, np_random, ph, serviceVars>>
        /\ GatewayFrame

\* POST /v1/chat/completions
CreateChatCompletion(model, request, run_fails) ==
    \E c \in {create_chat_completion(svc.chat, model, request, run_fails)} :
        /\ http' = [NoHttp EXCEPT !.endpoint = "/v1/chat/completions",
                                  !.model = model, !.request = request,
                                  !.run_failed = run_fails,
                                  !.assigned = c.assigned, !.status = c.status,
                                  !.outcome = IF c.called THEN c.result.raised
                                              ELSE "None",
                                  !.escaped = c.called /\ c.result.escaped,
                                  !.served_by = IF c.called THEN c.result.served_by
                                                ELSE "None",
                                  !.finish_reason = IF c.called
                                                    THEN c.result.finish_reason
                                                    ELSE "None",
                                  !.content = IF c.called THEN c.result.content
                                              ELSE <<>>]
        /\ UNCHANGED <<svc, np_random, ph, serviceVars>>
        /\ GatewayFrame

\* ------------------------------------------- the embedding service (SpecEmbedding)
InitEmbedding ==
    /\ InitBackend /\ cache_size = 0
    /\ ThreadsIdle
    /\ ServiceIdle
    /\ ChatIdle
    /\ svc = NoServices
    /\ np_random \in NpStates
    /\ http = NoHttp
    /\ ph = [NoPlaceholder EXCEPT !.state = "empty"]

NextEmbedding ==
    \/ \E ok \in BOOLEAN : InitializeEmbeddingService(ok)
    \/ \E texts \in EmbeddingInputs, batch_fails \in BOOLEAN :
          \E fails \in (IF batch_fails THEN FailChoices(texts) ELSE {{}}) :
              ProcessEmbeddings(texts, batch_fails, fails)
    \/ \E texts \in EmbeddingInputs, batch_fails \in BOOLEAN :
          \E fails \in (IF batch_fails THEN FailChoices(texts) ELSE {{}}) :
              CreateEmbeddings(texts, batch_fails, fails)

SpecEmbedding == InitEmbedding /\ [][NextEmbedding]_vars

\* ------------------------------------------- the router and the chat service (SpecGateway)
\* One client of the two endpoints and of process_chat, and one coroutine
\* loading and unloading chat models.
InitGateway == InitService

NextGateway ==
    \/ \E ok \in BOOLEAN : InitializeEmbeddingService(ok)
    \/ \E texts \in {<<>>} \cup {<<a>> : a \in BatchTexts} :
          CreateEmbeddings(texts, FALSE, {})
    \/ \E id \in ModelIds : LoadCall(Caller, id, "chat")
    \/ \E ok \in BOOLEAN : LoadFinish(Caller, ok)
    \/ \E id \in ModelIds : UnloadCall(Caller, id)
    \/ UnloadFinish(Caller)
    \/ InitializeChatService
    \/ \E model \in ModelIds \cup {"None"}, request \in ChatInputs,
          run_fails \in BOOLEAN : ProcessChat(model, request, run_fails)
    \/ \E model \in ModelIds, request \in ChatInputs \cup {EmptyChat},
          run_fails \in BOOLEAN : CreateChatCompletion(model, request, run_fails)

SpecGateway == InitGateway /\ [][NextGateway]_vars

\* ------------------------------------------- properties of the backend
Keys(c) == {c[i].key : i \in 1..Len(c)}
\* the held key whose most recent access is the oldest
OldestHeld(order, c) ==
    order[CHOOSE i \in 1..Len(order) :
            /\ order[i] \in Keys(c)
            /\ \A j \in 1..(i - 1) : order[j] \notin Keys(c)]
\* what the last put removed from the cache
Evicted == Keys(last.before) \ Keys(cache)
PutOverflows ==
    /\ last.op = "put"
    /\ cache_size > 0
    /\ Len(last.before) = cache_size
    /\ last.key \notin Keys(last.before)
EmbedRan == last.op = "embed" /\ last.raised # "RuntimeError"

\* C1: with capacity C > 0 the cache never holds more than C entries,
\* whatever embed / get / put operations have run.
C1_CapacityBound == cache_size > 0 => Len(cache) <= cache_size

\* C1 witness: a put of a new key into a full cache has completed.
C1_Witness == PutOverflows /\ Len(cache) = cache_size

\* C2: a put that pushes the cache over capacity evicts exactly one key, the
\* held key least recently accessed (by a hitting get or a put), never the
\* key just put; any other put evicts nothing; a get that hits leaves the
\* key at the most-recent position; and the held keys are always ordered by
\* their most recent access.
C2_EvictsLeastRecentlyUsed ==
    /\ PutOverflows =>
          /\ Evicted = {OldestHeld(last.orderBefore, last.before)}
          /\ last.key \in Keys(cache)
          /\ cache[Len(cache)].key = last.key
    /\ (last.op = "put" /\ ~PutOverflows) => Evicted = {}
    /\ (last.op = "get" /\ last.vec # NoVec) =>
          /\ cache[Len(cache)].key = last.key
          /\ Keys(cache) = Keys(last.before)
    /\ CacheKeys(cache) = SelectSeq(accessOrder, LAMBDA k : k \in Keys(cache))

\* C2 witness: a put of a new key into a full cache of two entries evicted
\* the entry that a hit had not refreshed, and kept the other.
C2_Witness ==
    /\ PutOverflows
    /\ cache_size = 2
    /\ Evicted = {last.before[1].key}
    /\ Keys(cache) = {last.before[2].key, last.key}

\* C3 (as claimed): every embed of N >= 1 texts on a loaded backend returns
\* exactly N vectors, the k-th being the embedding of the k-th text.
C3_EmbedInInputOrder ==
    (EmbedRan /\ Len(last.texts) >= 1) =>
        /\ last.raised = "None"
        /\ Len(last.vectors) = Len(last.texts)
        /\ \A k \in 1..Len(last.texts) : last.vectors[k] = EngineVector(last.texts[k])

\* C4 (as claimed): an embed of N texts immediately repeated on a backend of
\* capacity >= N reports cache_hits = N, cache_misses = 0 and runs no encode.
C4_RepeatIsAllHits ==
    [][(/\ EmbedRan
        /\ last'.op = "embed"
        /\ last'.texts = last.texts
        /\ Len(last.texts) >= 1
        /\ cache_size >= Len(last.texts))
       => (/\ last'.raised = "None"
           /\ last'.perf.cache_hits = Len(last.texts)
           /\ last'.perf.cache_misses = 0
           /\ ~last'.encoded)]_vars

\* C6 (as claimed): with capacity 0 the cache stays empty, every get misses,
\* every put changes nothing and every embed call reports cache_hits = 0.
C6_DisabledCache ==
    cache_size = 0 =>
        /\ cache = <<>>
        /\ last.op = "get" => last.vec = NoVec
        /\ last.op = "put" => cache = last.before
        /\ EmbedRan => last.raised = "None" /\ last.perf.cache_hits = 0

\* C7 (as claimed): the provider tag in the perf of every embed call is the
\* primary tag for at most 3 texts and, for 4 or more, the alternate tag
\* when the alternate session is present and the primary tag otherwise.
C7_ProviderByRequestSize ==
    (EmbedRan /\ Len(last.texts) >= 1) =>
        /\ last.raised = "None"
        /\ last.perf.provider =
              IF Len(last.texts) <= 3 THEN "CPU-ARM64"
              ELSE IF session_npu THEN "Azure" ELSE "CPU-ARM64"

\* C5 (as claimed): get and put are atomic with respect to each other: no
\* get or put of concurrent callers fails, and whenever no put is half-way
\* the cache holds at most cache_size entries.
C5_CacheOperationsAtomic ==
    /\ \A t \in Threads : tpc[t] # "KeyError"
    /\ (\A t \in Threads : tpc[t] \in {"idle", "get_44"}) => Len(cache) <= cache_size

\* ------------------------------------------- properties of the service
Held(id) == loaded_models[id].inst # 0

\* C8: load_model for an id that is already loaded returns True, constructs
\* no backend and leaves the loaded instance, the ModelInfo entries and the
\* per-task defaults as they were.
C8_LoadIdempotent ==
    [][(event'.at = "load_body" /\ Held(event'.model_id))
       => (/\ event'.ret = "True"
           /\ pc'[event'.task] = "idle"
           /\ UNCHANGED <<loaded_models, model_info, default_models, constructed>>)]_vars

\* C8 witness: a load_model of a loaded id has just returned True.
C8_Witness ==
    /\ event.at = "load_body"
    /\ Held(event.model_id)
    /\ pc[event.task] = "idle"
    /\ event.ret = "True"

\* C9 (as claimed): load_model and unload_model both run under the one lock:
\* an unload_model that is under way holds the lock, at most one load_model
\* is initializing a backend at a time, and no unload_model of an id is under
\* way while a load_model of that id is inside its critical section.
C9_LoadAndUnloadUnderLock ==
    /\ \A t \in Tasks : pc[t] = "unload_await" => lock = t
    /\ Cardinality({t \in Tasks : pc[t] = "load_await"}) <= 1
    /\ \A t, u \in Tasks :
          ~(/\ pc[t] = "load_await"
            /\ pc[u] = "unload_await"
            /\ call[t].model_id = call[u].model_id)

\* C10: an id is in the loaded map exactly when its recorded status is
\* `loaded`; ids that are loading, unloaded, in error or unknown are not in
\* it.  The map holds one instance per id.
C10_InMapIffLoaded ==
    \A id \in ModelIds : Held(id) <=> model_info[id].status = "loaded"

\* C10 witness: all calls are over, one id is loaded, and another id has been
\* unloaded or has failed to load.
C10_Witness ==
    /\ \A t \in Tasks : pc[t] = "idle"
    /\ \E id, other \in ModelIds :
          /\ Held(id)
          /\ model_info[id].status = "loaded"
          /\ model_info[other].status = "unloaded"
          /\ ~Held(other)

\* C11 (as claimed): every load_model that fails, whatever the model type,
\* returns False and leaves the id out of the loaded map, with status `error`
\* and a diagnostic error text on its entry, so that a later load_model of
\* the id is not answered as already loaded but loads again.
C11_FailedLoadRecorded ==
    (event.at \in {"load_body", "load_finish"} /\ event.ret = "False") =>
        /\ ~Held(event.model_id)
        /\ ~AlreadyLoaded(event.model_id)
        /\ model_info[event.model_id].status = "error"
        /\ model_info[event.model_id].error # "None"

\* ------------------------------------------- properties of the chat model
\* C12 (as claimed): once the chat model is unloaded it is out of the loaded
\* map with its sessions and tokenizer released, and a caller that took the
\* instance before the unload still gets its generation: its generate() does
\* not fail for want of the sessions.
C12_UnloadDetachesInstance ==
    /\ ~chat.in_map =>
          ~chat.decoder_session /\ ~chat.embed_session /\ ~chat.tokenizer
    /\ \A t \in Tasks : gen[t].pc = "raised" => gen[t].error # "RuntimeError"

\* what a frame's request comes to, computed from the request itself
PromptTokens(g) == encode_len(build_prompt_from_messages(g.request.messages))
Entered(g) == g.pc \in {"prefill", "loop", "returned", "raised"} /\ g.error # "RuntimeError"

\* C13: a prompt of context_limit tokens or more is refused with the
\* input-too-long error before any embedding or decoder run; a prompt of
\* context_limit - 1 tokens (or fewer) is never refused so, and has had its
\* prefill run by the time it is in the loop or has returned.
C13_PromptLengthLimit ==
    \A t \in Tasks :
        Entered(gen[t]) =>
            /\ PromptTokens(gen[t]) >= max_context =>
                  /\ gen[t].pc = "raised"
                  /\ gen[t].error = "ValueError"
                  /\ gen[t].runs = 0
            /\ PromptTokens(gen[t]) < max_context =>
                  /\ gen[t].pc # "raised"
                  /\ gen[t].pc \in {"loop", "returned"} => gen[t].runs >= 1

\* C13 witness: a prompt of exactly context_limit - 1 tokens was prefilled
\* and its generation has returned.
C13_Witness ==
    \E t \in Tasks :
        /\ gen[t].pc = "returned"
        /\ PromptTokens(gen[t]) = max_context - 1
        /\ gen[t].runs >= 1

\* what can be read off a returned generation
StopSequences(g) == normalize_stop_sequences(g.request.stop)
StopMatched(g) ==
    \E i \in 1..Len(StopSequences(g)) :
        /\ StopSequences(g)[i] # <<>>
        /\ Contains(decode(g.generated_ids), StopSequences(g)[i])
\* one more id was sampled than was kept: the last one was an EOS
EosSampled(g) == g.sampled = Len(g.generated_ids) + 1
ContextReached(g) == g.prompt_token_count + Len(g.generated_ids) >= max_context
StepsExhausted(g) == g.sampled >= g.max_new_tokens

\* C14: every generation that returns has finish_reason stop or length; it
\* is stop exactly when an EOS id was sampled or a stop string matched (also
\* when the context limit is reached on that same step), and length exactly
\* when neither happened and the context limit was reached or max_new_tokens
\* steps were used up.
C14_FinishReason ==
    \A t \in Tasks :
        gen[t].pc = "returned" =>
            /\ gen[t].finish_reason \in {"stop", "length"}
            /\ gen[t].finish_reason = "stop" <=>
                  (EosSampled(gen[t]) \/ StopMatched(gen[t]))
            /\ gen[t].finish_reason = "length" <=>
                  /\ ~EosSampled(gen[t]) /\ ~StopMatched(gen[t])
                  /\ ContextReached(gen[t]) \/ StepsExhausted(gen[t])

\* C14 witness: a stop string matched on the very step that reached the
\* context limit, and the generation returned with reason stop.
C14_Witness ==
    \E t \in Tasks :
        /\ gen[t].pc = "returned"
        /\ StopMatched(gen[t])
        /\ ContextReached(gen[t])
        /\ gen[t].finish_reason = "stop"

\* C15: a returned generation's id list holds no EOS id, its token count is
\* the number of ids sampled less the EOS that ended it, and the decoder was
\* not run after an EOS was sampled (one run for the prompt and one for each
\* id sampled before the EOS).
C15_EosNotEmitted ==
    \A t \in Tasks :
        gen[t].pc = "returned" =>
            /\ \A i \in 1..Len(gen[t].generated_ids) :
                  gen[t].generated_ids[i] \notin eos_token_ids
            /\ gen[t].tokens = Len(gen[t].generated_ids)
            /\ gen[t].tokens =
                  IF gen[t].ended_by = "eos" THEN gen[t].sampled - 1 ELSE gen[t].sampled
            /\ gen[t].ended_by = "eos" => gen[t].runs = gen[t].sampled

\* C15 witness: a generation returned on an EOS after at least one token.
C15_Witness ==
    \E t \in Tasks :
        /\ gen[t].pc = "returned"
        /\ gen[t].ended_by = "eos"
        /\ gen[t].tokens >= 1

\* the decoded text of the kept ids cut at the earliest place where any
\* configured non-empty stop string begins
EarliestStop(g) ==
    LET text == decode(g.generated_ids)
        starts == {k \in 1..Len(text) :
                      \E i \in 1..Len(StopSequences(g)) :
                          /\ StopSequences(g)[i] # <<>>
                          /\ OccursAt(text, StopSequences(g)[i], k)}
    IN CHOOSE k \in starts : \A j \in starts : k <= j
TruncatedAtStop(g) == SubSeq(decode(g.generated_ids), 1, EarliestStop(g) - 1)

\* C16: a generation whose decoded text contains a configured non-empty stop
\* string returns with reason stop, and its text is the decoded text cut at
\* the first occurrence of a stop string (then stripped), so no configured
\* stop string is left in it; the stop string may begin at position 0 and
\* several stop strings may be configured.
C16_StopStringTruncates ==
    \A t \in Tasks :
        (gen[t].pc = "returned" /\ StopMatched(gen[t])) =>
            /\ gen[t].finish_reason = "stop"
            /\ gen[t].text = strip(TruncatedAtStop(gen[t]))
            /\ \A i \in 1..Len(StopSequences(gen[t])) :
                  StopSequences(gen[t])[i] # <<>> =>
                      ~Contains(gen[t].text, StopSequences(gen[t])[i])

\* C17: within one generation every decoder run is given a position_offset
\* equal to the seq length of the KV cache passed in: 0 for the prefill and
\* prompt_tokens + k - 1 for the run that feeds the k-th generated token;
\* after every run the key and the value of all 30 layers have one and the
\* same seq length, prompt_tokens plus the number of generated tokens fed.
C17_PositionsFollowCache ==
    \A t \in Tasks :
        (gen[t].pc \in {"loop", "returned"} /\ gen[t].runs >= 1) =>
            /\ gen[t].run.position_offset = gen[t].run.past_seq
            /\ gen[t].runs = 1 =>
                  /\ gen[t].run.position_offset = 0
                  /\ gen[t].run.seq_len = gen[t].prompt_token_count
            /\ gen[t].runs >= 2 =>
                  /\ gen[t].run.position_offset =
                        gen[t].prompt_token_count + (gen[t].runs - 1) - 1
                  /\ gen[t].run.seq_len = 1
            /\ Len(gen[t].past_key_values) = NUM_LAYERS
            /\ \A l \in 1..NUM_LAYERS :
                  /\ gen[t].past_key_values[l].key = gen[t].past_key_values[l].value
                  /\ gen[t].past_key_values[l].key =
                        gen[t].prompt_token_count + (gen[t].runs - 1)

\* C17 witness: the decoder has been run on the second generated token.
C17_Witness ==
    \E t \in Tasks :
        /\ gen[t].pc = "loop"
        /\ gen[t].runs >= 3
        /\ Len(gen[t].generated_ids) = 2

\* C18: decoder runs of two requests on the one chat model never interleave:
\* while one generation has run the decoder and has not yet handed its
\* result to its caller, no other request has run the decoder at all, and it
\* alone holds the event loop; every generation's first run starts from a
\* cache of seq length 0 and leaves a cache holding its own prompt only.
C18_GenerationsSerialised ==
    \A t \in Tasks :
        gen[t].runs >= 1 =>
            /\ running = t
            /\ \A u \in Tasks \ {t} :
                  /\ gen[u].runs = 0
                  /\ gen[u].pc \in {"idle", "pending"}
                  /\ gen[u].past_key_values = <<>>
            /\ gen[t].runs = 1 =>
                  /\ gen[t].run.past_seq = 0
                  /\ \A l \in 1..NUM_LAYERS :
                        gen[t].past_key_values[l].key = gen[t].prompt_token_count

\* C18 witness: one generation is past its second decoder run while another
\* request, issued against the same instance, waits to start.
C18_Witness ==
    \E t, u \in Tasks :
        /\ t # u
        /\ gen[t].pc = "loop"
        /\ gen[t].runs >= 2
        /\ gen[u].pc = "pending"
        /\ gen[u].ref = gen[t].ref

\* C19: a request cancelled while its decode loop is running stops before
\* the next decoder run: the next step of its generation runs the decoder no
\* more, and returns finish reason cancelled with the text assembled so far.
C19_CancelHonoured ==
    [][\A t \in Tasks :
          (gen[t].cancelled /\ gen[t].pc = "loop" /\ gen'[t] # gen[t]) =>
              /\ gen'[t].runs = gen[t].runs
              /\ gen'[t].pc = "returned"
              /\ gen'[t].finish_reason = "cancelled"
              /\ gen'[t].text = strip(decode(gen[t].generated_ids))]_vars

\* C20: with temperature <= 0 a generation of the request that was generated
\* greedily before returns the same generated ids, the same finish reason
\* and the same text as that earlier generation, whatever state the
\* sampler's generator is in and whatever was generated in between.
C20_GreedyRepeats ==
    \A t \in Tasks :
        (/\ memo.state = "set"
         /\ gen[t].pc = "returned"
         /\ gen[t].request.temperature <= 0
         /\ gen[t].request = memo.request) =>
            /\ gen[t].generated_ids = memo.generated_ids
            /\ gen[t].finish_reason = memo.finish_reason
            /\ gen[t].text = memo.text

\* C20 witness: the remembered greedy request has been generated again after
\* a sampled generation drew from the generator in between.
C20_Witness ==
    \E t \in Tasks :
        /\ memo.state = "set"
        /\ memo.sampled_since
        /\ gen[t].pc = "returned"
        /\ gen[t].request.temperature <= 0
        /\ gen[t].request = memo.request
        /\ Len(gen[t].generated_ids) >= 1

\* the indices _select_next_token can return on these logits, over every
\* state of the generator
Returnable(logits, temperature, top_p) ==
    {select_next_token(logits, temperature, top_p, r).index : r \in RngStates}
\* the shortest prefix, by descending probability, whose cumulative
\* probability exceeds top_p: the index that crosses top_p is its last
ShortestPrefixOver(logits, top_p) ==
    LET sorted_indices == sorted_desc(logits, 1..Len(logits))
        cumulative(i) == SumSeq([j \in 1..i |-> logits[sorted_indices[j]]])
        over(i) == cumulative(i) * top_p[2] > top_p[1] * SumSeq(logits)
        n == CHOOSE i \in 1..Len(logits) : over(i) /\ \A j \in 1..(i - 1) : ~over(j)
    IN {sorted_indices[i] : i \in 1..n}
NucleusSampling(g) ==
    /\ g.request.temperature > 0
    /\ 0 < g.request.top_p[1] /\ g.request.top_p[1] < g.request.top_p[2]

\* C21: with temperature > 0 and 0 < top_p < 1, the tokens the sampler can
\* return on the logits of a generation in its loop are exactly the shortest
\* prefix of the tokens by descending probability whose cumulative
\* probability first exceeds top_p, the crossing token included, and never
\* none.
C21_NucleusIsShortestPrefix ==
    \A t \in Tasks :
        (gen[t].pc = "loop" /\ NucleusSampling(gen[t])) =>
            /\ Returnable(gen[t].logits, gen[t].request.temperature,
                          gen[t].request.top_p) # {}
            /\ Returnable(gen[t].logits, gen[t].request.temperature,
                          gen[t].request.top_p)
                  = ShortestPrefixOver(gen[t].logits, gen[t].request.top_p)

\* what can be read off the last embedding result
Placeholders == {fallback(s) : s \in NpStates}
EmbeddingsReturned ==
    /\ http.endpoint \in {"process_embeddings", "/v1/embeddings"}
    /\ http.encoded
    /\ http.outcome = "None"
PlaceholderAt(i) == http.batch_failed /\ i \in http.failed

\* C22: when the batch run failed and the retry of some text failed too,
\* the result holds a placeholder vector for that text and a non-null entry
\* at its index of the error list; every other text has its real vector and
\* a null error entry.
C22_PlaceholderHasError ==
    EmbeddingsReturned =>
        /\ Len(http.embeddings) = Len(http.texts)
        /\ Len(http.errors) = Len(http.texts)
        /\ \A i \in 1..Len(http.texts) :
              IF PlaceholderAt(i)
              THEN /\ http.embeddings[i] \in Placeholders
                   /\ http.errors[i] # "None"
              ELSE /\ http.embeddings[i] = EngineVector(http.texts[i])
                   /\ http.errors[i] = "None"

\* C23: the failure placeholder is a function of the text alone: whenever a
\* result holds a placeholder for the text of the remembered placeholder,
\* it is the remembered vector, whatever calls ran in between.
C23_PlaceholderRepeats ==
    (ph.state = "set" /\ EmbeddingsReturned) =>
        \A i \in 1..Len(http.texts) :
            (PlaceholderAt(i) /\ http.texts[i] = ph.text) =>
                http.embeddings[i] = ph.vec

\* the last request went through a router handler
Routed == http.endpoint \in {"/v1/embeddings", "/v1/chat/completions"}
EmptyInput ==
    \/ http.endpoint = "/v1/embeddings" /\ http.texts = <<>>
    \/ http.endpoint = "/v1/chat/completions" /\ http.request.messages = <<>>

\* C24: the status a router handler assigns to a request it turns away is
\* the status of the response: 503 when the service is not initialized, 400
\* for an empty input or empty messages on an initialized service; neither
\* becomes 500.
C24_RejectionStatusKept ==
    Routed =>
        /\ http.assigned # 0 => http.status = http.assigned
        /\ http.assigned = 503 => http.status = 503
        /\ (EmptyInput /\ http.assigned # 503) => http.status = 400

\* the status the router owes a chat request whose processing met this
\* exception: the prompt is too long, the model is not loaded, the run failed
StatusOwed(raised) ==
    IF raised = "ValueError" THEN 400
    ELSE IF raised = "RuntimeError" THEN 503
    ELSE 500

\* C25: a chat request whose generation fails (the run raises, the prompt is
\* too long, the target model is not loaded) is answered with an error status
\* (500, 400, 503), never with a 200 chat.completion whose content is the
\* error message.
C25_FailedChatSurfaced ==
    (http.endpoint = "/v1/chat/completions" /\ http.outcome # "None") =>
        /\ http.status # 200
        /\ http.status = StatusOwed(http.outcome)
        /\ http.content # ErrorContent

\* C26: the initialized embedding service turns away a batch of 0 texts and
\* every batch of more than 100 texts with the input error, before the
\* engine is called, and takes every batch of 1 to 100 texts: the engine is
\* called and one vector per text comes back.
C26_BatchLimits ==
    (http.endpoint = "process_embeddings" /\ svc.embedding) =>
        IF Len(http.texts) = 0 \/ Len(http.texts) > 100
        THEN /\ http.outcome = "ValueError"
             /\ ~http.encoded
             /\ http.embeddings = <<>>
        ELSE /\ http.outcome = "None"
             /\ http.encoded
             /\ Len(http.embeddings) = Len(http.texts)

\* C26 witness: a batch of exactly 100 texts was taken and embedded.
C26_Witness ==
    /\ http.endpoint = "process_embeddings"
    /\ svc.embedding
    /\ Len(http.texts) = 100
    /\ http.outcome = "None"
    /\ http.encoded

\* the last request was a chat request that reached backend selection
ChatSelected ==
    /\ http.endpoint \in {"process_chat", "/v1/chat/completions"}
    /\ http.request.messages # <<>>
    /\ ~http.escaped
    /\ http.assigned = 0
\* nothing but the selection can have failed
GenerationSound ==
    /\ ~http.run_failed
    /\ ~prompt_too_long(encode_len(build_prompt_from_messages(http.request.messages)))
ChatDefaultLoaded ==
    /\ get_default_model_id("chat") # "None"
    /\ InLoadedModels(get_default_model_id("chat"))

\* C27: a chat request is served by the model it names when that is loaded,
\* else by the default chat model when one is loaded; it fails for want of a
\* model only when the id it names is not loaded and there is no chat
\* default.
C27_SelectionFallsBack ==
    [][(/\ http' # http
        /\ ChatSelected'
        /\ GenerationSound'
        /\ svc.chat)
       => /\ (http'.model # "None" /\ InLoadedModels(http'.model)) =>
                http'.served_by = http'.model
          /\ (~(http'.model # "None" /\ InLoadedModels(http'.model))
                /\ ChatDefaultLoaded) =>
                http'.served_by = get_default_model_id("chat")
          /\ http'.outcome = "RuntimeError" =>
                /\ ~(http'.model # "None" /\ InLoadedModels(http'.model))
                /\ get_default_model_id("chat") = "None"]_vars

\* the input positions whose text was in the cache when the call began
HeldAtStart == {i \in 1..Len(last.texts) : last.texts[i] \in Keys(last.before)}

\* the partition of lines 63-70 alone: what the call counted before it encoded
PartitionCounts ==
    EmbedRan => /\ last.hits = Cardinality(HeldAtStart)
                /\ last.hits + last.misses = Len(last.texts)

\* C28 (as claimed): every embed call of N texts reports cache_hits +
\* cache_misses = N with cache_hits the number of input positions whose text
\* was in the cache when the call began; in particular a call on a cache
\* holding none of its texts reports 0 hits and N misses, repeated texts
\* included.
C28_HitsCountedAtStart ==
    (EmbedRan /\ Len(last.texts) >= 1) =>
        /\ last.raised = "None"
        /\ last.perf.cache_hits = Cardinality(HeldAtStart)
        /\ last.perf.cache_hits + last.perf.cache_misses = Len(last.texts)

\* the number of new tokens a request allows, in the words of C29
Allowed(request) ==
    IF request.max_tokens > 0 THEN request.max_tokens ELSE default_max_new_tokens

\* C29: a generation goes round its loop at most max_new_tokens times (the
\* request's max_tokens if positive, else 256), runs the decoder at most
\* 1 + max_new_tokens times, and returns completion_tokens <= max_new_tokens
\* with prompt_tokens + completion_tokens <= the context limit.
C29_GenerationBounded ==
    \A t \in Tasks :
        gen[t].pc \in {"loop", "returned"} =>
            /\ gen[t].max_new_tokens = Allowed(gen[t].request)
            /\ gen[t].step <= Allowed(gen[t].request)
            /\ gen[t].runs <= 1 + Allowed(gen[t].request)
            /\ gen[t].pc = "returned" =>
                  /\ gen[t].tokens <= Allowed(gen[t].request)
                  /\ gen[t].prompt_token_count + gen[t].tokens <= max_context

\* C29 witness: a generation used up its allowance: it returned because the
\* loop was exhausted, with max_new_tokens tokens and 1 + max_new_tokens
\* decoder runs.
C29_Witness ==
    \E t \in Tasks :
        /\ gen[t].pc = "returned"
        /\ gen[t].ended_by = "exhausted"
        /\ gen[t].tokens = Allowed(gen[t].request)
        /\ gen[t].runs = 1 + Allowed(gen[t].request)

\* a generation on the default allowance has returned
DefaultAllowanceUsed ==
    \E t \in Tasks :
        /\ gen[t].pc = "returned"
        /\ gen[t].request.max_tokens = 0
        /\ gen[t].max_new_tokens = default_max_new_tokens
        /\ gen[t].tokens >= 1

\* a generation has filled the context
ContextFilled ==
    \E t \in Tasks :
        /\ gen[t].pc = "returned"
        /\ gen[t].prompt_token_count + gen[t].tokens = max_context

\* C30 (as claimed): whenever get_default_model_id(task) returns an id, that
\* id is in the loaded map: the per-task default never names an unloaded
\* model.
C30_DefaultIsLoaded ==
    \A ty \in ModelTypes :
        get_default_model_id(ty) # "None" => InLoadedModels(get_default_model_id(ty))

====
